---- MODULE Spec2Model ----
(***************************************************************************)
(* PayLink: the intent ledger (Express server), the two payment hooks      *)
(* (useUniswapPayment, useLiFiPayment) and the pages that drive them       *)
(* (PayPage, SplitDetailPage, SplitPage, CreatePage).                      *)
(*                                                                         *)
(* The specifications share the variables:                                 *)
(*   SpecLedger   the HTTP handlers of the ledger, called in any order     *)
(*   SpecPay      PayPage with both hooks, the wallet and the providers    *)
(*   SpecPayFair  SpecPay's page where every pending promise settles       *)
(*   SpecSplit    SplitDetailPage with the Uniswap hook and the ledger     *)
(*   SpecForm     SplitPage's form and its create-split request            *)
(*   SpecHook     the two hooks called by any component, in any state      *)
(*   SpecCreate   CreatePage's form, its ENS lookups and its request       *)
(*   SpecAccounts SplitDetailPage with a wallet that changes account       *)
(*   SpecPaid     PayPage opened on an intent the ledger holds as paid     *)
(*                                                                         *)
(* The pages read the chain from useChainId(), which reports a chain of    *)
(* the wagmi configuration.  The route logic of PayPage distinguishes      *)
(* Sepolia, Polygon and every other chain, so the model lets the wallet    *)
(* move between one chain of each kind.                                    *)
(***************************************************************************)
EXTENDS Integers, Sequences, FiniteSets, TLC

\* ------------------------------------------------------------------ bounds
\* Longest participants array posted to /create-split.
MaxParticipants == 3
\* Executions (executeSwap / executePayment calls that pass their guard)
\* started by a page in one run.
MaxAttempts == 2
\* fetchQuote calls awaiting their provider at one time.
MaxFetches == 2

\* --------------------------------------------------------------- constants
Null == "null"

\* Addresses as the clients send them: two accounts, the first in two
\* spellings that differ only in letter case.
Addrs == {"0xaa", "0xAA", "0xbb"}

\* String.prototype.toLowerCase on the address alphabet.
toLowerCase(a) ==
  IF a = "0xAA" THEN "0xaa" ELSE a

\* Transaction hashes a client may report.
Hashes == {"0xh1", "0xh2"}

\* The ids generateIntentId and generateSplitId produce: fresh strings with
\* the prefixes intent_ and split_.
IntentIds == {"intent_1"}
SplitIds == {"split_1"}

\* Chain ids: Ethereum, Polygon (the settlement chain), Sepolia (the testnet).
MAINNET == 1
POLYGON == 137
SEPOLIA == 11155111
Chains == {MAINNET, POLYGON, SEPOLIA}

VARIABLES
  intents,      \* the ledger: id -> Intent (Map<string, Intent>)
  issued,       \* the ids generated so far (an id is never generated twice)
  chainId,      \* the wallet's chain (wagmi useChainId)
  connected,    \* wallet connected: address and walletClient are defined
  publicClient, \* usePublicClient() is defined
  account,      \* the wallet's account (wagmi useAccount address), read
                \* while connected
  routeType,    \* PayPage routeType state: "auto" | "lifi" | "uniswap"
  txChainId,    \* page state txChainId (0 is null)
  uni,          \* useUniswapPayment state: status, quote, error, txHash
  lifi,         \* useLiFiPayment state: status, routeInfo, error, txHash
  fetches,      \* fetchQuote calls awaiting their provider
  attempts,     \* executeSwap / executePayment calls in flight, each with
                \* the await it is suspended at (pc)
  caps,         \* history: caps[n] is the chain id handlePay captured when
                \* it started the n-th execution; its hash is n
  callbacks,    \* txHashes PayPage has posted to /fusion/callback
  page,         \* the mounted route: "pay" (PayPage) | "split" (SplitDetailPage)
                \* | "create-split" (SplitPage) | "create" (CreatePage)
                \* | "hooks" (the hooks alone)
  showPayModal, \* SplitDetailPage state showPayModal
  split,        \* SplitDetailPage state split: the loaded record, or NoSplit
  posts,        \* SplitDetailPage's POSTs to /split/:id/pay awaiting the ledger
  form,         \* SplitPage state: participants, totalAmount, error, loading,
                \* splitCreated, and the POST /create-split in flight; on
                \* CreatePage: amount, recipient, isRecipientValid, loading,
                \* error, link, the ENS lookups and the POST in flight
  log           \* history: hashes whose POST /split/:id/pay failed and was
                \* written to the console (console.error)

ledgerVars == <<intents, issued>>
walletVars == <<chainId, connected, publicClient, account>>
pageVars == <<routeType, txChainId, uni, lifi, fetches, attempts, caps,
              callbacks, page, showPayModal, split, posts, form, log>>

vars == <<intents, issued, chainId, connected, publicClient, account, routeType,
          txChainId, uni, lifi, fetches, attempts, caps, callbacks, page,
          showPayModal, split, posts, form, log>>

\* ------------------------------------------------------------------ ledger
Ids == IntentIds \cup SplitIds

\* Participant lists a client may post: non-empty arrays over Addrs.
ParticipantLists ==
  UNION { [1..n -> Addrs] : n \in 1..MaxParticipants }

Response(code, message) == [code |-> code, message |-> message]

\* Array.prototype.find with the case-insensitive address predicate:
\* index of the first matching participant, 0 when none matches.
\* participantAddress may be absent (Null): undefined never equals a string.
FindParticipant(ps, participantAddress) ==
  LET hits == { i \in 1..Len(ps) :
                  /\ participantAddress # Null
                  /\ toLowerCase(ps[i].address) = toLowerCase(participantAddress) }
  IN IF hits = {} THEN 0
     ELSE CHOOSE i \in hits : \A j \in hits : i <= j

\* Recipients that pass isValidRecipient: an EVM address and an ENS name.
Recipients == {"0xcc", "alice.eth"}

\* String.prototype.endsWith('.eth') on the recipients above.
endsWithEth(recipient) == recipient = "alice.eth"

\* POST /create-intent, after validation passed.
NewPayment(recipient) ==
  [type |-> "payment", recipient |-> recipient,
   status |-> "unpaid", txHash |-> Null,
   participants |-> <<>>, paidCount |-> 0, totalParticipants |-> 0]

\* POST /create-split, after validation passed.
NewSplit(recipient, addrs) ==
  [type |-> "split", recipient |-> recipient,
   status |-> "unpaid", txHash |-> Null,
   participants |-> [i \in 1..Len(addrs) |->
                       [address |-> addrs[i], paid |-> FALSE, txHash |-> Null]],
   paidCount |-> 0, totalParticipants |-> Len(addrs)]

\* Mutation of SplitPayIntent: the count written back is one more than a
\* count read before any other participant's call (a lost update).
SplitPayIntentLostUpdate(intent, i, txHash) ==
  IF intent.participants[i].paid THEN intent
  ELSE [intent EXCEPT
          !.participants[i].paid = TRUE,
          !.participants[i].txHash = txHash,
          !.paidCount = 1,
          !.status = IF 1 = intent.totalParticipants THEN "paid" ELSE "partial"]

\* Mutation of SplitPayIntent: the "already paid" early return is missing.
SplitPayIntentNoPaidCheck(intent, i, txHash) ==
  LET cnt == intent.paidCount + 1
  IN [intent EXCEPT
        !.participants[i].paid = TRUE,
        !.participants[i].txHash = txHash,
        !.paidCount = cnt,
        !.status = IF cnt = intent.totalParticipants THEN "paid"
                   ELSE IF cnt > 0 THEN "partial" ELSE @]

\* POST /split/:id/pay on a found split: the record after the handler, given
\* the index i of the participant that find() returned.
SplitPayIntent(intent, i, txHash) ==
  IF intent.participants[i].paid THEN intent
  ELSE LET cnt == intent.paidCount + 1
       IN [intent EXCEPT
             !.participants[i].paid = TRUE,
             !.participants[i].txHash = txHash,
             !.paidCount = cnt,
             !.status = IF cnt = intent.totalParticipants THEN "paid"
                        ELSE IF cnt > 0 THEN "partial" ELSE @]

\* POST /split/:id/pay: the whole ledger after the call.
SplitPayDb(db, id, participantAddress, txHash) ==
  IF id \notin DOMAIN db \/ db[id].type # "split" THEN db
  ELSE LET i == FindParticipant(db[id].participants, participantAddress)
       IN IF i = 0 THEN db
          ELSE [db EXCEPT ![id] = SplitPayIntent(db[id], i, txHash)]

\* POST /split/:id/pay: the response.
SplitPayResp(db, id, participantAddress) ==
  IF id \notin DOMAIN db \/ db[id].type # "split"
    THEN Response(404, "Split not found")
  ELSE LET i == FindParticipant(db[id].participants, participantAddress)
       IN IF i = 0 THEN Response(404, "Participant not found")
          ELSE IF db[id].participants[i].paid THEN Response(200, "Already paid")
          ELSE Response(200, "ok")

\* Mutation of FusionCallbackIntent: the hash of the callback is not stored.
FusionCallbackIntentNoHash(intent, txHash) ==
  IF intent.status = "paid" THEN intent
  ELSE [intent EXCEPT !.status = "paid"]

\* Mutation of FusionCallbackIntent: no "already marked as paid" early return.
FusionCallbackIntentNoPaidCheck(intent, txHash) ==
  [intent EXCEPT !.status = "paid", !.txHash = txHash]

\* POST /fusion/callback on a found intent: the record after the handler.
FusionCallbackIntent(intent, txHash) ==
  IF intent.status = "paid" THEN intent
  ELSE [intent EXCEPT !.status = "paid", !.txHash = txHash]

\* POST /fusion/callback: the whole ledger after the call.
FusionCallbackDb(db, intentId, txHash) ==
  IF intentId \notin DOMAIN db THEN db
  ELSE [db EXCEPT ![intentId] = FusionCallbackIntent(db[intentId], txHash)]

\* POST /fusion/callback: the response.
FusionCallbackResp(db, intentId) ==
  IF intentId \notin DOMAIN db THEN Response(404, "Intent not found")
  ELSE IF db[intentId].status = "paid"
    THEN Response(200, "Already marked as paid")
  ELSE Response(200, "Payment status updated")

\* ----- ledger actions
CreateIntent ==
  \E id \in IntentIds \ issued, recipient \in Recipients :
    /\ issued' = issued \cup {id}
    /\ UNCHANGED <<walletVars, pageVars>>
    /\ intents' = [x \in DOMAIN intents \cup {id} |->
                     IF x = id THEN NewPayment(recipient) ELSE intents[x]]

CreateSplit ==
  \E id \in SplitIds \ issued, recipient \in Recipients,
     addrs \in ParticipantLists :
    /\ issued' = issued \cup {id}
    /\ UNCHANGED <<walletVars, pageVars>>
    /\ intents' = [x \in DOMAIN intents \cup {id} |->
                     IF x = id THEN NewSplit(recipient, addrs) ELSE intents[x]]

SplitPay ==
  \E id \in Ids, a \in Addrs \cup {Null}, h \in Hashes :
    /\ intents' = SplitPayDb(intents, id, a, h)
    /\ UNCHANGED issued
    /\ UNCHANGED <<walletVars, pageVars>>

FusionCallback ==
  \E id \in Ids, h \in Hashes \cup {Null} :
    /\ intents' = FusionCallbackDb(intents, id, h)
    /\ UNCHANGED issued
    /\ UNCHANGED <<walletVars, pageVars>>

\* DELETE /intent/:id
DeleteDb(db, id) ==
  IF id \in DOMAIN db THEN [x \in DOMAIN db \ {id} |-> db[x]] ELSE db

DeleteIntent ==
  \E id \in Ids :
    /\ intents' = DeleteDb(intents, id)
    /\ UNCHANGED issued
    /\ UNCHANGED <<walletVars, pageVars>>

InitLedger ==
  /\ intents = [id \in {} |-> NewPayment("0xcc")]
  /\ issued = {}


\* ------------------------------------------------------------ route choice
\* PayPage: isTestnet, isSameChainAsRecipient, useUniswap.
\* A selector that knows no test network.
isTestnetNever(c) == FALSE

isTestnet(c) == c = SEPOLIA

isSameChainAsRecipient(c) == c = POLYGON

\* A selector whose automatic choice is always the same-chain strategy.
useUniswapWheneverAuto(c, rt) == c = SEPOLIA \/ rt \in {"uniswap", "auto"}

useUniswap(c, rt) ==
  isTestnet(c) \/ rt = "uniswap" \/ (rt = "auto" /\ isSameChainAsRecipient(c))

\* PayPage's routeReason, shown next to the selected route.
routeReason(c, rt) ==
  IF isTestnet(c) THEN "Testnet (LI.FI not supported)"
  ELSE IF isSameChainAsRecipient(c) /\ rt = "auto"
    THEN "Same-chain swap (faster & cheaper)"
  ELSE IF rt = "uniswap" THEN "You selected Uniswap"
  ELSE "Cross-chain via LI.FI"



\* ------------------------------------------------------- SplitPage state
\* No POST /create-split in flight.
NoRequest == [recipient |-> Null, participants |-> <<>>]

\* useState initial values of SplitPage.
FormInit ==
  [participants |-> <<[address |-> "", share |-> 100]>>,
   totalAmount |-> "", error |-> Null, loading |-> FALSE,
   splitCreated |-> FALSE, request |-> NoRequest]

\* ------------------------------------------------------------- hook states
\* SplitDetailPage's split state when it holds no record (null, undefined).
NoSplit == [type |-> "undefined"]

\* A quote (UniswapQuoteInfo / RouteInfo): its source chain id; `used` is
\* history, set once an execution has been started with this quote object.
NoQuote == [chainId |-> 0, used |-> FALSE]

Quote(c) == [chainId |-> c, used |-> FALSE]

\* useState initial values of either hook (txHash 0 is null).
\* via is history: the signal that confirmed the transaction when status was
\* last set to success by executeSwap ("receipt", "lookup"), "none" before.
HookInit ==
  [status |-> "idle", quote |-> NoQuote, error |-> Null, txHash |-> 0,
   via |-> "none"]

\* Errors the wallet and the providers reject with (code, message).
WalletErrors ==
  { [code |-> 4001, message |-> "User denied transaction signature"],
    [code |-> 0, message |-> "User rejected the request"],
    [code |-> 0, message |-> "insufficient funds"],
    [code |-> 0, message |-> Null] }

QuoteErrors ==
  { [code |-> 0, message |-> "No liquidity"],
    [code |-> 0, message |-> Null] }

\* err?.message?.includes('rejected') on the messages above.
includesRejected(message) == message = "User rejected the request"

\* A catch block that stores the cause's message for every failure.
ExecErrorMessageOfCause(err, fallback) ==
  IF err.message # Null THEN err.message ELSE fallback

\* The catch block of executeSwap / executePayment: the error string stored.
ExecErrorMessage(err, fallback) ==
  IF err.code = 4001 \/ includesRejected(err.message)
    THEN "Transaction rejected by user"
  ELSE IF err.message # Null THEN err.message
  ELSE fallback

\* The catch block of fetchQuote: err?.message || fallback.
QuoteErrorMessage(err, fallback) ==
  IF err.message # Null THEN err.message ELSE fallback

NotBroadcast ==
  "Transaction may not have been broadcast. Please check your wallet and try again."

\* The per-chain tables the hook reads (UNISWAP_CONFIG, USDC_TOKENS,
\* WETH_TOKENS) list every chain of the model.
UniswapChainSupported(c) == c \in Chains

\* reset() of either hook.
HookReset(h) == HookInit

\* Combined state of PayPage: the selected hook's fields.
Selected(c, rt, u, l) == IF useUniswap(c, rt) THEN u ELSE l

isProcessing(st) == st \in {"fetching-quote", "awaiting-sig", "executing"}

\* Block explorers by chain id.
BLOCK_EXPLORERS(c) ==
  CASE c = MAINNET -> "https://etherscan.io"
    [] c = POLYGON -> "https://polygonscan.com"
    [] c = SEPOLIA -> "https://sepolia.etherscan.io"
    [] OTHER -> Null

\* getTxExplorerUrl: an absent chain id or an unknown chain gives Sepolia's.
getTxExplorerUrl(txHash, c) ==
  LET explorer == IF c # 0 THEN BLOCK_EXPLORERS(c) ELSE BLOCK_EXPLORERS(SEPOLIA)
  IN [explorer |-> IF explorer # Null THEN explorer ELSE BLOCK_EXPLORERS(SEPOLIA),
      tx |-> txHash]

\* The href of PayPage's "View on Explorer" link: txChainId || chainId.
ExplorerLink(txHash, txc, c) ==
  getTxExplorerUrl(txHash, IF txc # 0 THEN txc ELSE c)

\* ------------------------------------------------------------ PayPage view
\* What the page renders from the current state.
Cur == Selected(chainId, routeType, uni, lifi)

SuccessView == Cur.status = "success"

\* "Continue" (Get Quote) button: shown and enabled.
CanGetQuote ==
  /\ ~SuccessView
  /\ Cur.quote = NoQuote /\ Cur.status = "idle"
  /\ connected

\* Pay button of the selected route's card: shown and enabled.
CanPay ==
  /\ ~SuccessView
  /\ Cur.quote # NoQuote
  /\ ~isProcessing(Cur.status)

\* The refresh button inside the error banner.
CanReset == ~SuccessView /\ Cur.error # Null

\* PayPage's reconciliation effect, deps [status, txHash, intentId]: it runs
\* after the render that follows a step when a dependency changed, and posts
\* to /fusion/callback when the combined status is success with a hash.
PayReconcileEffect ==
  LET before == Cur
      after == Selected(chainId', routeType', uni', lifi')
  IN callbacks' =
       IF /\ <<after.status, after.txHash>> # <<before.status, before.txHash>>
          /\ after.status = "success" /\ after.txHash # 0
         THEN callbacks \cup {after.txHash}
         ELSE callbacks

\* The account SplitDetailPage's wallet connects with (useAccount address):
\* the checksummed spelling of the first participant.
UserAddress == "0xAA"

\* The accounts of the wallet: the first and the second participant.
Accounts == {"0xAA", "0xbb"}

\* SplitDetailPage's reconciliation effect, deps [paymentStatus, txHash,
\* splitId, userAddress] (userAddress is undefined while disconnected): it
\* posts to /split/:id/pay when the status is success with a hash and an
\* address.  live: the page that sent the request is still mounted.
SplitReconcileEffect ==
  posts' =
    IF /\ <<uni'.status, uni'.txHash, connected', account'>>
            # <<uni.status, uni.txHash, connected, account>>
       /\ uni'.status = "success" /\ uni'.txHash # 0 /\ connected'
      THEN posts \cup {[address |-> account', hash |-> uni'.txHash,
                        live |-> TRUE]}
      ELSE posts

\* The effects of the mounted page, run after a step of a hook or the wallet.
ReconcileEffect ==
  IF page = "pay"
    THEN PayReconcileEffect /\ UNCHANGED posts
  ELSE IF page = "split"
    THEN SplitReconcileEffect /\ UNCHANGED callbacks
  ELSE UNCHANGED <<callbacks, posts>>

\* An execution in flight: its number (also its transaction hash), hook,
\* the await it is suspended at, the source chain of the quote it runs
\* (required), the publicClient of its closure (pub), and the hash it has
\* published with setTxHash (0 before).
NewAttempt(id, hook, pc, quote, pub) ==
  [id |-> id, hook |-> hook, pc |-> pc, required |-> quote.chainId,
   pub |-> pub, hash |-> 0]

Pending(hook, pc) ==
  { i \in 1..Len(attempts) : attempts[i].hook = hook /\ attempts[i].pc = pc }

RemoveAt(s, i) == [j \in 1..(Len(s) - 1) |-> IF j < i THEN s[j] ELSE s[j + 1]]

\* ------------------------------------------------------ useUniswapPayment
\* fetchQuote up to its first await: it throws before calling the quoter on
\* an unsupported chain or without a public client.
UniFetchQuoteCallsQuoter(c, pub) == UniswapChainSupported(c) /\ pub

UniFetchQuoteStart(u, c, pub) ==
  IF UniFetchQuoteCallsQuoter(c, pub)
    THEN [u EXCEPT !.status = "fetching-quote", !.error = Null, !.quote = NoQuote]
  ELSE [u EXCEPT !.status = "error", !.quote = NoQuote,
                 !.error = IF UniswapChainSupported(c)
                             THEN "Public client not available"
                             ELSE "Chain not supported for Uniswap swaps"]

UniFetchQuoteDone(u, q) == [u EXCEPT !.quote = q, !.status = "idle"]

UniFetchQuoteFailed(u, err) ==
  [u EXCEPT !.status = "error",
            !.error = QuoteErrorMessage(err, "Failed to get Uniswap quote")]

\* A guard that looks at the wallet client only.
ExecuteSwapGuardWalletOnly(u, walletClient) == walletClient

\* executeSwap's guard: it goes on to the wallet only with a quote and a
\* wallet client.
ExecuteSwapGuard(u, walletClient) == u.quote # NoQuote /\ walletClient

ExecuteSwapStart(u, walletClient) ==
  IF ExecuteSwapGuard(u, walletClient)
    THEN [u EXCEPT !.status = "executing", !.error = Null, !.quote.used = TRUE]
  ELSE [u EXCEPT !.status = "error",
                 !.error = "No quote available or wallet not connected"]

\* After sendTransaction returned a hash: setTxHash, and success at once when
\* the closure holds no public client.
ExecuteSwapSent(u, hash, pub) ==
  IF pub THEN [u EXCEPT !.txHash = hash]
  ELSE [u EXCEPT !.txHash = hash, !.status = "success"]

\* Mutation of ExecuteSwapConfirmed: a confirmed transaction is reported as
\* not broadcast.
ExecuteSwapConfirmedAsError(u) ==
  [u EXCEPT !.status = "error",
            !.error = "Transaction may not have been broadcast. Please check your wallet and try again."]

ExecuteSwapConfirmed(u) == [u EXCEPT !.status = "success"]

ExecuteSwapUnconfirmed(u) ==
  [u EXCEPT !.status = "error", !.error = NotBroadcast]

ExecuteSwapFailed(u, err) ==
  [u EXCEPT !.status = "error",
            !.error = ExecErrorMessage(err, "Swap execution failed")]

\* --------------------------------------------------------- useLiFiPayment
LifiFetchQuoteStart(l) ==
  [l EXCEPT !.status = "fetching-quote", !.error = Null, !.quote = NoQuote,
            !.txHash = 0]

LifiFetchQuoteDone(l, q) == [l EXCEPT !.quote = q, !.status = "idle"]

LifiFetchQuoteFailed(l, err) ==
  [l EXCEPT !.status = "error",
            !.error = QuoteErrorMessage(err, "Failed to get payment quote")]

ExecutePaymentGuard(l, walletClient) == l.quote # NoQuote /\ walletClient

ExecutePaymentStart(l, walletClient) ==
  IF ExecutePaymentGuard(l, walletClient)
    THEN [l EXCEPT !.status = "awaiting-sig", !.error = Null, !.quote.used = TRUE]
  ELSE [l EXCEPT !.status = "error",
                 !.error = "No route available or wallet not connected"]

ExecutePaymentFailed(l, err) ==
  [l EXCEPT !.status = "error",
            !.error = ExecErrorMessage(err, "Payment execution failed")]

\* ---------------------------------------------------------------- PayPage
SetRouteType ==
  \E rt \in {"auto", "lifi", "uniswap"} :
    /\ ~SuccessView
    /\ rt # routeType
    /\ rt \in {"auto", "lifi"} => ~isTestnet(chainId)
    /\ routeType' = rt
    /\ UNCHANGED <<ledgerVars, page, form, log, split, walletVars, txChainId, uni, lifi, fetches,
                   attempts, caps>>
    /\ UNCHANGED showPayModal
    /\ ReconcileEffect

\* The error banner's button: reset of the selected hook.
Reset ==
  /\ CanReset
  /\ IF useUniswap(chainId, routeType)
       THEN uni' = HookReset(uni) /\ UNCHANGED lifi
       ELSE lifi' = HookReset(lifi) /\ UNCHANGED uni
  /\ UNCHANGED <<ledgerVars, page, form, log, split, walletVars, routeType, txChainId, fetches,
                 attempts, caps>>
  /\ UNCHANGED showPayModal
  /\ ReconcileEffect

\* handleGetQuote, up to the await inside fetchQuote.
HandleGetQuote ==
  /\ CanGetQuote
  /\ Len(fetches) < MaxFetches
  /\ IF useUniswap(chainId, routeType)
       THEN /\ uni' = UniFetchQuoteStart(uni, chainId, publicClient)
            /\ fetches' =
                 IF UniFetchQuoteCallsQuoter(chainId, publicClient)
                   THEN Append(fetches, [hook |-> "uni", chainId |-> chainId])
                   ELSE fetches
            /\ UNCHANGED lifi
       ELSE /\ lifi' = LifiFetchQuoteStart(lifi)
            /\ fetches' = Append(fetches, [hook |-> "lifi", chainId |-> chainId])
            /\ UNCHANGED uni
  /\ UNCHANGED <<ledgerVars, page, form, log, split, walletVars, routeType, txChainId, attempts, caps>>
  /\ UNCHANGED showPayModal
  /\ ReconcileEffect

\* The quoter / LI.FI getQuote answers fetch i.
FetchQuoteResolve ==
  \E i \in 1..Len(fetches) :
    LET f == fetches[i]
    IN /\ IF f.hook = "uni"
            THEN uni' = UniFetchQuoteDone(uni, Quote(f.chainId)) /\ UNCHANGED lifi
            ELSE lifi' = LifiFetchQuoteDone(lifi, Quote(f.chainId)) /\ UNCHANGED uni
       /\ fetches' = RemoveAt(fetches, i)
       /\ UNCHANGED <<ledgerVars, page, form, log, split, walletVars, routeType, txChainId, attempts,
                      caps>>
       /\ showPayModal' = (page = "split" \/ showPayModal)
       /\ ReconcileEffect

FetchQuoteReject ==
  \E i \in 1..Len(fetches), err \in QuoteErrors :
    LET f == fetches[i]
    IN /\ IF f.hook = "uni"
            THEN uni' = UniFetchQuoteFailed(uni, err) /\ UNCHANGED lifi
            ELSE lifi' = LifiFetchQuoteFailed(lifi, err) /\ UNCHANGED uni
       /\ fetches' = RemoveAt(fetches, i)
       /\ UNCHANGED <<ledgerVars, page, form, log, split, walletVars, routeType, txChainId, attempts,
                      caps>>
       /\ showPayModal' = (page = "split" \/ showPayModal)
       /\ ReconcileEffect

\* An execution starts in this step (the guard of executeSwap /
\* executePayment passed).
ExecutionStarts == Len(caps') > Len(caps)

\* handlePay, up to the first await of executeSwap / executePayment.
HandlePay ==
  /\ CanPay
  /\ Len(caps) < MaxAttempts
  /\ txChainId' = chainId
  /\ IF useUniswap(chainId, routeType)
       THEN /\ uni' = ExecuteSwapStart(uni, connected)
            /\ IF ExecuteSwapGuard(uni, connected)
                 THEN /\ attempts' = Append(attempts,
                            NewAttempt(Len(caps) + 1, "uni", "send", uni.quote,
                                       publicClient))
                      /\ caps' = Append(caps, chainId)
                 ELSE UNCHANGED <<attempts, caps>>
            /\ UNCHANGED lifi
       ELSE /\ lifi' = ExecutePaymentStart(lifi, connected)
            /\ IF ExecutePaymentGuard(lifi, connected)
                 THEN /\ attempts' = Append(attempts,
                            NewAttempt(Len(caps) + 1, "lifi", "getChain",
                                       lifi.quote, publicClient))
                      /\ caps' = Append(caps, chainId)
                 ELSE UNCHANGED <<attempts, caps>>
            /\ UNCHANGED uni
  /\ UNCHANGED <<ledgerVars, page, form, log, split, walletVars, routeType, fetches>>
  /\ UNCHANGED showPayModal
  /\ ReconcileEffect

\* ----- executeSwap after its awaits
SendTransactionResolve ==
  \E i \in Pending("uni", "send") :
    LET a == attempts[i]
    IN /\ uni' = ExecuteSwapSent(uni, a.id, a.pub)
       /\ attempts' = IF a.pub
                        THEN [attempts EXCEPT ![i].hash = a.id, ![i].pc = "wait"]
                        ELSE RemoveAt(attempts, i)
       /\ UNCHANGED <<ledgerVars, page, form, log, split, walletVars, routeType, txChainId, lifi,
                      fetches, caps>>
       /\ UNCHANGED showPayModal
       /\ ReconcileEffect

SendTransactionReject ==
  \E i \in Pending("uni", "send"), err \in WalletErrors :
    /\ uni' = ExecuteSwapFailed(uni, err)
    /\ attempts' = RemoveAt(attempts, i)
    /\ UNCHANGED <<ledgerVars, page, form, log, split, walletVars, routeType, txChainId, lifi,
                   fetches, caps>>
    /\ UNCHANGED showPayModal
    /\ ReconcileEffect

\* waitForTransactionReceipt returns a mined receipt.
WaitReceiptResolve ==
  \E i \in Pending("uni", "wait") :
    /\ uni' = [ExecuteSwapConfirmed(uni) EXCEPT !.via = "receipt"]
    /\ attempts' = RemoveAt(attempts, i)
    /\ UNCHANGED <<ledgerVars, page, form, log, split, walletVars, routeType, txChainId, lifi,
                   fetches, caps>>
    /\ UNCHANGED showPayModal
    /\ ReconcileEffect

\* The 60 s wait times out or fails: fall back to getTransaction.
WaitReceiptReject ==
  \E i \in Pending("uni", "wait") :
    /\ attempts' = [attempts EXCEPT ![i].pc = "lookup"]
    /\ UNCHANGED <<ledgerVars, page, form, log, split, walletVars, routeType, txChainId, uni, lifi,
                   fetches, caps>>
    /\ UNCHANGED showPayModal
    /\ ReconcileEffect

\* getTransaction returns the transaction.
GetTransactionFound ==
  \E i \in Pending("uni", "lookup") :
    /\ uni' = [ExecuteSwapConfirmed(uni) EXCEPT !.via = "lookup"]
    /\ attempts' = RemoveAt(attempts, i)
    /\ UNCHANGED <<ledgerVars, page, form, log, split, walletVars, routeType, txChainId, lifi,
                   fetches, caps>>
    /\ UNCHANGED showPayModal
    /\ ReconcileEffect

\* getTransaction returns nothing, or throws.
GetTransactionMissing ==
  \E i \in Pending("uni", "lookup") :
    /\ uni' = ExecuteSwapUnconfirmed(uni)
    /\ attempts' = RemoveAt(attempts, i)
    /\ UNCHANGED <<ledgerVars, page, form, log, split, walletVars, routeType, txChainId, lifi,
                   fetches, caps>>
    /\ UNCHANGED showPayModal
    /\ ReconcileEffect

\* ----- executePayment after its awaits
\* walletClient.getChainId() answers with the wallet's chain.
GetChainIdResolve ==
  \E i \in Pending("lifi", "getChain") :
    /\ IF chainId # attempts[i].required
         THEN /\ attempts' = [attempts EXCEPT ![i].pc = "switch"]
              /\ UNCHANGED lifi
         ELSE /\ attempts' = [attempts EXCEPT ![i].pc = "route"]
              /\ lifi' = [lifi EXCEPT !.status = "executing"]
    /\ UNCHANGED <<ledgerVars, page, form, log, split, walletVars, routeType, txChainId, uni,
                   fetches, caps>>
    /\ UNCHANGED showPayModal
    /\ ReconcileEffect

\* switchChainAsync moved the wallet to the route's source chain.
SwitchChainResolve ==
  \E i \in Pending("lifi", "switch") :
    /\ chainId' = attempts[i].required
    /\ attempts' = [attempts EXCEPT ![i].pc = "route"]
    /\ lifi' = [lifi EXCEPT !.status = "executing"]
    /\ UNCHANGED <<ledgerVars, page, form, log, split, connected, publicClient, account,
                   routeType,
                   txChainId, uni, fetches, caps>>
    /\ UNCHANGED showPayModal
    /\ ReconcileEffect

\* updateRouteHook sees a DONE process with a txHash.
UpdateRouteHook ==
  \E i \in Pending("lifi", "route") :
    /\ attempts[i].hash = 0
    /\ lifi' = [lifi EXCEPT !.txHash = attempts[i].id]
    /\ attempts' = [attempts EXCEPT ![i].hash = attempts[i].id]
    /\ UNCHANGED <<ledgerVars, page, form, log, split, walletVars, routeType, txChainId, uni,
                   fetches, caps>>
    /\ UNCHANGED showPayModal
    /\ ReconcileEffect

ExecuteRouteResolve ==
  \E i \in Pending("lifi", "route") :
    /\ lifi' = [lifi EXCEPT !.status = "success"]
    /\ attempts' = RemoveAt(attempts, i)
    /\ UNCHANGED <<ledgerVars, page, form, log, split, walletVars, routeType, txChainId, uni,
                   fetches, caps>>
    /\ UNCHANGED showPayModal
    /\ ReconcileEffect

\* getChainId, switchChainAsync or executeRoute rejects.
ExecutePaymentReject ==
  \E i \in 1..Len(attempts), err \in WalletErrors :
    /\ attempts[i].hook = "lifi"
    /\ lifi' = ExecutePaymentFailed(lifi, err)
    /\ attempts' = RemoveAt(attempts, i)
    /\ UNCHANGED <<ledgerVars, page, form, log, split, walletVars, routeType, txChainId, uni,
                   fetches, caps>>
    /\ UNCHANGED showPayModal
    /\ ReconcileEffect

\* ----- the wallet and wagmi
\* The user switches network in the wallet (useChainId changes).
WalletSwitchChain ==
  \E c \in Chains \ {chainId} :
    /\ chainId' = c
    /\ UNCHANGED <<ledgerVars, page, form, log, split, connected, publicClient, account,
                   routeType, txChainId,
                   uni, lifi, fetches, attempts, caps>>
    /\ UNCHANGED showPayModal
    /\ ReconcileEffect

\* The wallet connects or disconnects.
WalletConnect ==
  /\ connected' = ~connected
  /\ UNCHANGED <<ledgerVars, page, form, log, split, chainId, publicClient, account,
                 routeType, txChainId,
                 uni, lifi, fetches, attempts, caps>>
  /\ UNCHANGED showPayModal
  /\ ReconcileEffect

\* The user selects another account in the connected wallet.
WalletSwitchAccount ==
  \E a \in Accounts \ {account} :
    /\ connected
    /\ account' = a
    /\ UNCHANGED <<ledgerVars, page, form, log, split, chainId, connected,
                   publicClient, routeType, txChainId, uni, lifi, fetches,
                   attempts, caps>>
    /\ UNCHANGED showPayModal
    /\ ReconcileEffect

\* -------------------------------------------------------- SplitDetailPage
\* The split the page shows, and the participants it was created with.
SplitId == "split_1"

SplitParticipants == <<"0xaa", "0xbb">>

\* The hash string of the n-th execution, as sent to the ledger.
TxHashString(n) ==
  CASE n = 1 -> "0xh1"
    [] n = 2 -> "0xh2"
    [] OTHER -> "0xh3"

\* The mount effect: GET /intent/:splitId; anything but a split record
\* leaves split null with an error.
LoadSplit(db) ==
  IF SplitId \in DOMAIN db /\ db[SplitId].type = "split" THEN db[SplitId]
  ELSE NoSplit

\* userParticipant: index of the connected account among the participants
\* of the loaded split, 0 when there is none.
userParticipant ==
  IF connected /\ split # NoSplit
    THEN FindParticipant(split.participants, account)
  ELSE 0

\* The payment modal is rendered (it covers the page).
ModalShown ==
  /\ split # NoSplit
  /\ showPayModal /\ uni.quote # NoQuote /\ userParticipant # 0

\* "Settle now": shown to a connected, unpaid participant and disabled only
\* while a quote is being fetched.
CanSettle ==
  /\ split # NoSplit /\ userParticipant # 0
  /\ ~split.participants[userParticipant].paid
  /\ ~ModalShown
  /\ uni.status # "fetching-quote"

\* The modal's Pay button: shown unless success, disabled while executing or
\* awaiting-approval.
CanSplitPay ==
  /\ ModalShown
  /\ uni.status \notin {"success", "executing", "awaiting-approval"}

\* SplitDetailPage.handleGetQuote: fetchQuote, then setShowPayModal(true)
\* once fetchQuote has returned.
SplitHandleGetQuote ==
  /\ page = "split"
  /\ CanSettle
  /\ Len(fetches) < MaxFetches
  /\ uni' = UniFetchQuoteStart(uni, chainId, publicClient)
  /\ IF UniFetchQuoteCallsQuoter(chainId, publicClient)
       THEN /\ fetches' = Append(fetches, [hook |-> "uni", chainId |-> chainId])
            /\ UNCHANGED showPayModal
       ELSE /\ showPayModal' = TRUE
            /\ UNCHANGED fetches
  /\ UNCHANGED <<ledgerVars, page, form, log, split, walletVars, routeType, txChainId,
                 lifi, attempts, caps>>
  /\ ReconcileEffect

\* SplitDetailPage.handlePay, up to the first await of executeSwap.
SplitHandlePay ==
  /\ page = "split"
  /\ CanSplitPay
  /\ Len(caps) < MaxAttempts
  /\ txChainId' = chainId
  /\ uni' = ExecuteSwapStart(uni, connected)
  /\ IF ExecuteSwapGuard(uni, connected)
       THEN /\ attempts' = Append(attempts,
                  NewAttempt(Len(caps) + 1, "uni", "send", uni.quote,
                             publicClient))
            /\ caps' = Append(caps, chainId)
       ELSE UNCHANGED <<attempts, caps>>
  /\ UNCHANGED <<ledgerVars, page, form, log, split, walletVars, routeType, lifi,
                 fetches, showPayModal>>
  /\ ReconcileEffect

\* The modal's close button.
CloseModal ==
  /\ page = "split"
  /\ ModalShown
  /\ showPayModal' = FALSE
  /\ UNCHANGED <<ledgerVars, page, form, log, split, walletVars, routeType, txChainId,
                 uni, lifi, fetches, attempts, caps, callbacks, posts>>

\* The modal's Done button: window.location.reload().  The page mounts
\* anew: its state and the hook's are initial, the split is loaded again,
\* and what the old page awaited no longer reaches a component.
DoneReload ==
  /\ page = "split"
  /\ ModalShown /\ uni.status = "success"
  /\ showPayModal' = FALSE
  /\ txChainId' = 0
  /\ uni' = HookInit
  /\ fetches' = <<>>
  /\ attempts' = <<>>
  /\ split' = LoadSplit(intents)
  /\ posts' = { [r EXCEPT !.live = FALSE] : r \in posts }
  /\ UNCHANGED <<ledgerVars, page, form, log, walletVars, routeType, lifi, caps,
                 callbacks>>

\* The ledger answers a POST /split/:id/pay.  Its JSON answers carry no
\* split field, so the page stores data.split, which is undefined.
SplitPayAnswered ==
  \E r \in posts :
    /\ intents' = SplitPayDb(intents, SplitId, r.address, TxHashString(r.hash))
    /\ split' = IF r.live THEN NoSplit ELSE split
    /\ posts' = posts \ {r}
    /\ UNCHANGED <<issued, page, form, log, walletVars, routeType, txChainId, uni, lifi,
                   fetches, attempts, caps, callbacks, showPayModal>>

\* The ledger cannot be reached: the request fails and is only logged.
SplitPayUnreachable ==
  \E r \in posts :
    /\ posts' = posts \ {r}
    /\ log' = log \cup {r.hash}
    /\ UNCHANGED <<ledgerVars, page, form, split, walletVars, routeType, txChainId,
                   uni, lifi, fetches, attempts, caps, callbacks,
                   showPayModal>>

\* ---------------------------------------------------------- specifications
\* The ledger is empty; PayPage has mounted with its intent loaded, the
\* wallet is on some chain, connected or not; usePublicClient() is defined
\* or not, as the wagmi configuration has it.
Init ==
  /\ InitLedger
  /\ page = "pay"
  /\ showPayModal = FALSE
  /\ split = NoSplit
  /\ posts = {}
  /\ chainId \in Chains
  /\ connected \in BOOLEAN
  /\ account = UserAddress
  /\ publicClient \in BOOLEAN
  /\ routeType = "auto"
  /\ txChainId = 0
  /\ uni = HookInit
  /\ lifi = HookInit
  /\ fetches = <<>>
  /\ attempts = <<>>
  /\ caps = <<>>
  /\ callbacks = {}
  /\ form = FormInit
  /\ log = {}

NextLedger ==
  \/ CreateIntent
  \/ CreateSplit
  \/ SplitPay
  \/ FusionCallback
  \/ DeleteIntent

\* The ledger taking requests while no page acts: the wallet, which no
\* handler of the ledger reads, is held at one value.
InitLedgerOnly ==
  Init /\ chainId = SEPOLIA /\ connected = FALSE /\ publicClient = TRUE

SpecLedger == InitLedgerOnly /\ [][NextLedger]_vars

NextPay ==
  \/ SetRouteType
  \/ Reset
  \/ HandleGetQuote
  \/ FetchQuoteResolve
  \/ FetchQuoteReject
  \/ HandlePay
  \/ SendTransactionResolve
  \/ SendTransactionReject
  \/ WaitReceiptResolve
  \/ WaitReceiptReject
  \/ GetTransactionFound
  \/ GetTransactionMissing
  \/ GetChainIdResolve
  \/ SwitchChainResolve
  \/ UpdateRouteHook
  \/ ExecuteRouteResolve
  \/ ExecutePaymentReject
  \/ WalletSwitchChain
  \/ WalletConnect

SpecPay == Init /\ [][NextPay]_vars

\* PayPage opened on the link of an intent that /fusion/callback has
\* already marked paid: the mount effect has loaded the record; the wallet
\* is connected and stays on its chain.
PaidIntentId == "intent_1"

InitPaid ==
  /\ \E h \in Hashes :
       intents = [id \in {PaidIntentId} |->
                    FusionCallbackIntent(NewPayment("0xcc"), h)]
  /\ issued = {PaidIntentId}
  /\ page = "pay"
  /\ showPayModal = FALSE
  /\ split = NoSplit
  /\ posts = {}
  /\ chainId \in Chains
  /\ connected = TRUE
  /\ account = UserAddress
  /\ publicClient = TRUE
  /\ routeType = "auto"
  /\ txChainId = 0
  /\ uni = HookInit
  /\ lifi = HookInit
  /\ fetches = <<>>
  /\ attempts = <<>>
  /\ caps = <<>>
  /\ callbacks = {}
  /\ form = FormInit
  /\ log = {}

NextPaid ==
  \/ SetRouteType
  \/ Reset
  \/ HandleGetQuote
  \/ FetchQuoteResolve
  \/ FetchQuoteReject
  \/ HandlePay
  \/ SendTransactionResolve
  \/ SendTransactionReject
  \/ WaitReceiptResolve
  \/ WaitReceiptReject
  \/ GetTransactionFound
  \/ GetTransactionMissing
  \/ GetChainIdResolve
  \/ UpdateRouteHook
  \/ ExecuteRouteResolve
  \/ ExecutePaymentReject

SpecPaid == InitPaid /\ [][NextPaid]_vars

\* PayPage with a connected wallet and a public client throughout, where
\* every promise a hook awaits settles: the quote provider answers, and the
\* wallet, the receipt wait, the lookup and the route execution return.
FetchSettles == FetchQuoteResolve \/ FetchQuoteReject

SwapSettles ==
  \/ SendTransactionResolve
  \/ SendTransactionReject
  \/ WaitReceiptResolve
  \/ WaitReceiptReject
  \/ GetTransactionFound
  \/ GetTransactionMissing

PaymentSettles ==
  \/ GetChainIdResolve
  \/ SwitchChainResolve
  \/ ExecuteRouteResolve
  \/ ExecutePaymentReject

NextPayFair ==
  \/ SetRouteType
  \/ Reset
  \/ HandleGetQuote
  \/ HandlePay
  \/ WalletSwitchChain
  \/ UpdateRouteHook
  \/ FetchSettles
  \/ SwapSettles
  \/ PaymentSettles

InitPayFair == Init /\ connected = TRUE

SpecPayFair ==
  /\ InitPayFair
  /\ [][NextPayFair]_vars
  /\ WF_vars(FetchSettles)
  /\ WF_vars(SwapSettles)
  /\ WF_vars(PaymentSettles)

\* SplitDetailPage has mounted and loaded a split of two participants that
\* the ledger holds, created with either kind of recipient the ledger
\* accepts; the connected account is the first participant.  The
\* wallet stays on Sepolia, the one chain of the shipped wagmi configuration.
InitSplit ==
  /\ \E recipient \in Recipients :
       intents = [id \in {SplitId} |-> NewSplit(recipient, SplitParticipants)]
  /\ issued = {SplitId}
  /\ page = "split"
  /\ showPayModal = FALSE
  /\ split = LoadSplit(intents)
  /\ posts = {}
  /\ chainId = SEPOLIA
  /\ connected \in BOOLEAN
  /\ account = UserAddress
  /\ publicClient \in BOOLEAN
  /\ routeType = "auto"
  /\ txChainId = 0
  /\ uni = HookInit
  /\ lifi = HookInit
  /\ fetches = <<>>
  /\ attempts = <<>>
  /\ caps = <<>>
  /\ callbacks = {}
  /\ form = FormInit
  /\ log = {}

NextSplit ==
  \/ DeleteIntent
  \/ SplitHandleGetQuote
  \/ FetchQuoteResolve
  \/ FetchQuoteReject
  \/ SplitHandlePay
  \/ CloseModal
  \/ DoneReload
  \/ SendTransactionResolve
  \/ SendTransactionReject
  \/ WaitReceiptResolve
  \/ WaitReceiptReject
  \/ GetTransactionFound
  \/ GetTransactionMissing
  \/ SplitPayAnswered
  \/ SplitPayUnreachable
  \/ WalletConnect

SpecSplit == InitSplit /\ [][NextSplit]_vars

\* SplitDetailPage with a wallet that stays connected and whose user may
\* select another account at any time; the split pays an address and
\* nobody closes it.
InitAccounts ==
  /\ InitSplit
  /\ intents[SplitId].recipient = "0xcc"
  /\ connected = TRUE
  /\ publicClient = TRUE

NextAccounts ==
  \/ SplitHandleGetQuote
  \/ FetchQuoteResolve
  \/ FetchQuoteReject
  \/ SplitHandlePay
  \/ CloseModal
  \/ DoneReload
  \/ SendTransactionResolve
  \/ SendTransactionReject
  \/ WaitReceiptResolve
  \/ WaitReceiptReject
  \/ GetTransactionFound
  \/ GetTransactionMissing
  \/ SplitPayAnswered
  \/ SplitPayUnreachable
  \/ WalletSwitchAccount

SpecAccounts == InitAccounts /\ [][NextAccounts]_vars

\* --------------------------------------------------------------- SplitPage
\* Largest number of participant rows added to the form.
MaxFormParticipants == 3

\* Values typed into a share field and into the amount field.
ShareInputs == {30, 40, 60}
AmountInputs == {"", "0", "25"}
AddressInputs == {"", "0xaa"}

\* Number(totalAmount) <= 0 on the amounts above.
AmountNotPositive(totalAmount) == totalAmount = "0"

\* A reducer that reports the total the form requires.
totalSharesAssumed(ps) == 100

\* participants.reduce((sum, p) => sum + p.share, 0)
RECURSIVE totalShares(_)
totalShares(ps) ==
  IF ps = <<>> THEN 0 ELSE ps[1].share + totalShares(Tail(ps))

\* allParticipantsValid: every row holds an address that its input has
\* validated (validation is taken to follow the entry of an address).
allParticipantsValid(ps) == \A i \in 1..Len(ps) : ps[i].address # ""

\* recipient || address: the recipient field is never filled, so it is the
\* connected account, if any.
recipientAddress == IF connected THEN account ELSE Null

\* The submit button is enabled.
CanCreateSplit ==
  /\ ~form.splitCreated
  /\ ~form.loading
  /\ form.totalAmount # ""
  /\ allParticipantsValid(form.participants)
  /\ totalShares(form.participants) = 100

\* handleCreateSplit's validation: the error it sets, Null when it goes on
\* to the request.
CreateSplitValidation(f, recipient) ==
  IF f.totalAmount = "" \/ AmountNotPositive(f.totalAmount)
    THEN "Please enter a valid amount"
  ELSE IF recipient = Null
    THEN "Please enter a recipient address or connect your wallet"
  ELSE IF ~allParticipantsValid(f.participants)
    THEN "Please enter valid addresses or registered ENS names for all participants"
  ELSE IF totalShares(f.participants) # 100
    THEN "Shares must total 100%"
  ELSE Null

FormUnchanged ==
  UNCHANGED <<ledgerVars, walletVars, routeType, txChainId, uni, lifi, fetches,
              attempts, caps, callbacks, page, showPayModal, split, posts,
              log>>

addParticipant ==
  /\ page = "create-split"
  /\ ~form.splitCreated /\ ~form.loading
  /\ Len(form.participants) < MaxFormParticipants
  /\ LET newShare == 100 \div (Len(form.participants) + 1)
     IN form' = [form EXCEPT !.participants =
                   Append([i \in 1..Len(form.participants) |->
                             [form.participants[i] EXCEPT !.share = newShare]],
                          [address |-> "", share |-> newShare])]
  /\ FormUnchanged

\* The remove button of a row, rendered when there are more than two rows.
removeParticipant ==
  \E k \in 1..Len(form.participants) :
    /\ page = "create-split"
    /\ ~form.splitCreated /\ ~form.loading
    /\ Len(form.participants) > 2
    /\ LET filtered == RemoveAt(form.participants, k)
           newShare == 100 \div Len(filtered)
       IN form' = [form EXCEPT !.participants =
                     [i \in 1..Len(filtered) |->
                        [filtered[i] EXCEPT !.share = newShare]]]
    /\ FormUnchanged

\* updateParticipant(id, 'share', Number(e.target.value))
updateShare ==
  \E k \in 1..Len(form.participants), v \in ShareInputs :
    /\ page = "create-split"
    /\ ~form.splitCreated /\ ~form.loading
    /\ form' = [form EXCEPT !.participants[k].share = v]
    /\ FormUnchanged

\* updateParticipant(id, 'address', v)
updateAddress ==
  \E k \in 1..Len(form.participants), a \in AddressInputs :
    /\ page = "create-split"
    /\ ~form.splitCreated /\ ~form.loading
    /\ form' = [form EXCEPT !.participants[k].address = a]
    /\ FormUnchanged

SetTotalAmount ==
  \E v \in AmountInputs :
    /\ page = "create-split"
    /\ ~form.splitCreated /\ ~form.loading
    /\ form' = [form EXCEPT !.totalAmount = v]
    /\ FormUnchanged

\* handleCreateSplit, up to the await of fetch.
handleCreateSplit ==
  /\ page = "create-split"
  /\ CanCreateSplit
  /\ LET e == CreateSplitValidation(form, recipientAddress)
     IN form' =
          IF e # Null THEN [form EXCEPT !.error = e]
          ELSE [form EXCEPT
                  !.error = Null, !.loading = TRUE,
                  !.request =
                    [recipient |-> recipientAddress,
                     participants |-> form.participants]]
  /\ FormUnchanged

\* The ledger answers the POST with the new split's id.
CreateSplitAnswered ==
  \E id \in SplitIds \ issued :
    /\ form.request # NoRequest
    /\ issued' = issued \cup {id}
    /\ intents' =
         [x \in DOMAIN intents \cup {id} |->
            IF x = id
              THEN NewSplit(form.request.recipient,
                            [i \in 1..Len(form.request.participants) |->
                               form.request.participants[i].address])
              ELSE intents[x]]
    /\ form' = [form EXCEPT !.loading = FALSE, !.splitCreated = TRUE,
                            !.request = NoRequest]
    /\ UNCHANGED <<walletVars, routeType, txChainId, uni, lifi, fetches,
                   attempts, caps, callbacks, page, showPayModal, split, posts,
                   log>>

\* The request fails (no answer, or an answer that is not ok).
CreateSplitFailed ==
  \E e \in {"Failed to fetch", "Error creating split"} :
    /\ form.request # NoRequest
    /\ form' = [form EXCEPT !.loading = FALSE, !.error = e,
                            !.request = NoRequest]
    /\ FormUnchanged

\* "Create Another Split" on the success view.
CreateAnother ==
  /\ page = "create-split"
  /\ form.splitCreated
  /\ form' = [form EXCEPT
                !.splitCreated = FALSE, !.totalAmount = "",
                !.participants = <<[address |-> "", share |-> 50],
                                   [address |-> "", share |-> 50]>>]
  /\ FormUnchanged

InitForm ==
  /\ InitLedger
  /\ page = "create-split"
  /\ showPayModal = FALSE
  /\ split = NoSplit
  /\ posts = {}
  /\ chainId = SEPOLIA
  /\ connected \in BOOLEAN
  /\ account = UserAddress
  /\ publicClient = TRUE
  /\ routeType = "auto"
  /\ txChainId = 0
  /\ uni = HookInit
  /\ lifi = HookInit
  /\ fetches = <<>>
  /\ attempts = <<>>
  /\ caps = <<>>
  /\ callbacks = {}
  /\ form = FormInit
  /\ log = {}

NextForm ==
  \/ addParticipant
  \/ removeParticipant
  \/ updateShare
  \/ updateAddress
  \/ SetTotalAmount
  \/ handleCreateSplit
  \/ CreateSplitAnswered
  \/ CreateSplitFailed
  \/ CreateAnother

SpecForm == InitForm /\ [][NextForm]_vars

\* ------------------------------------------------------------- CreatePage
\* What the user can type into the recipient field: nothing, an address, a
\* string that is neither an address nor a name, a registered ENS name, and
\* an ENS name nobody registered.
RecipientInputs == {"", "0xcc", "zz", "alice.eth", "nobody.eth"}

\* RecipientInput: value.endsWith('.eth') && value.length > 4
isENS(value) == value \in {"alice.eth", "nobody.eth"}

\* viem's isAddress on the inputs above.
isAddress(value) == value = "0xcc"

\* What the ENS lookup service answers for a name: valid exactly for a
\* registered name (a resolver or a non-zero address).
ensValid(value) == value = "alice.eth"

\* The ledger's isValidRecipient on the inputs above.
isValidRecipient(recipient) == recipient \in {"0xcc", "alice.eth", "nobody.eth"}

\* useState initial values of CreatePage; checks holds the names whose ENS
\* lookup is in flight.
CreateInit ==
  [amount |-> "", recipient |-> "", isRecipientValid |-> FALSE,
   loading |-> FALSE, error |-> Null, link |-> Null, checks |-> {},
   request |-> NoRequest]

\* The two effects of RecipientInput, run after a render with a new value:
\* a name starts a lookup and notifies nothing; any other value notifies the
\* parent at once.
RecipientEffects(f) ==
  IF isENS(f.recipient) THEN [f EXCEPT !.checks = @ \cup {f.recipient}]
  ELSE IF f.recipient # "" THEN [f EXCEPT !.isRecipientValid = isAddress(f.recipient)]
  ELSE [f EXCEPT !.isRecipientValid = FALSE]

\* onChange of the recipient field (setRecipient) and the effects it causes.
setRecipient ==
  \E v \in RecipientInputs \ {form.recipient} :
    /\ page = "create"
    /\ form.link = Null
    /\ form' = RecipientEffects([form EXCEPT !.recipient = v])
    /\ FormUnchanged

\* onChange of the amount field.
setAmount ==
  \E v \in AmountInputs \ {form.amount} :
    /\ page = "create"
    /\ form.link = Null
    /\ form' = [form EXCEPT !.amount = v]
    /\ FormUnchanged

\* The lookup of a name answers: the .then continuation of RecipientInput.
EnsLookupResolve ==
  \E v \in form.checks :
    /\ page = "create"
    /\ form' = [form EXCEPT !.checks = @ \ {v}, !.isRecipientValid = ensValid(v)]
    /\ FormUnchanged

\* The lookup of a name fails: the .catch continuation of RecipientInput.
EnsLookupReject ==
  \E v \in form.checks :
    /\ page = "create"
    /\ form' = [form EXCEPT !.checks = @ \ {v}, !.isRecipientValid = FALSE]
    /\ FormUnchanged

\* The submit button of CreatePage is enabled.
CanCreateIntent ==
  /\ form.link = Null
  /\ ~form.loading
  /\ form.amount # ""
  /\ form.isRecipientValid

\* createIntent, up to the await of fetch.
createIntent ==
  /\ page = "create"
  /\ CanCreateIntent
  /\ form' =
       IF AmountNotPositive(form.amount)
         THEN [form EXCEPT !.error = "Please enter a valid amount"]
       ELSE IF ~form.isRecipientValid
         THEN [form EXCEPT !.error = "Please enter a valid wallet address or registered ENS name"]
       ELSE [form EXCEPT
               !.error = Null, !.loading = TRUE,
               !.request = [recipient |-> form.recipient, participants |-> <<>>]]
  /\ FormUnchanged

\* The ledger accepts the POST and answers with the new intent's id.
CreateIntentAnswered ==
  \E id \in IntentIds \ issued :
    /\ page = "create"
    /\ form.request # NoRequest
    /\ isValidRecipient(form.request.recipient)
    /\ issued' = issued \cup {id}
    /\ intents' =
         [x \in DOMAIN intents \cup {id} |->
            IF x = id THEN NewPayment(form.request.recipient) ELSE intents[x]]
    /\ form' = [form EXCEPT !.loading = FALSE, !.link = id,
                            !.request = NoRequest]
    /\ UNCHANGED <<walletVars, routeType, txChainId, uni, lifi, fetches,
                   attempts, caps, callbacks, page, showPayModal, split, posts,
                   log>>

\* The request fails: no answer, or the ledger's 400 for a recipient that
\* isValidRecipient refuses.
CreateIntentFailed ==
  \E e \in {"Failed to fetch", "Invalid recipient"} :
    /\ page = "create"
    /\ form.request # NoRequest
    /\ (e = "Invalid recipient") = ~isValidRecipient(form.request.recipient)
    /\ form' = [form EXCEPT !.loading = FALSE, !.error = e,
                            !.request = NoRequest]
    /\ FormUnchanged

\* "Create New" on the success view; the recipient field mounts again with
\* an empty value and notifies the parent.
CreateNew ==
  /\ page = "create"
  /\ form.link # Null
  /\ form' = RecipientEffects([form EXCEPT !.link = Null, !.amount = "",
                                           !.recipient = ""])
  /\ FormUnchanged

InitCreate ==
  /\ InitLedger
  /\ page = "create"
  /\ showPayModal = FALSE
  /\ split = NoSplit
  /\ posts = {}
  /\ chainId = SEPOLIA
  /\ connected \in BOOLEAN
  /\ account = UserAddress
  /\ publicClient = TRUE
  /\ routeType = "auto"
  /\ txChainId = 0
  /\ uni = HookInit
  /\ lifi = HookInit
  /\ fetches = <<>>
  /\ attempts = <<>>
  /\ caps = <<>>
  /\ callbacks = {}
  /\ form = CreateInit
  /\ log = {}

NextCreate ==
  \/ setRecipient
  \/ setAmount
  \/ EnsLookupResolve
  \/ EnsLookupReject
  \/ createIntent
  \/ CreateIntentAnswered
  \/ CreateIntentFailed
  \/ CreateNew

SpecCreate == InitCreate /\ [][NextCreate]_vars

\* ------------------------------------------------- the hooks on their own
\* The two payment hooks mounted in a component that calls what they return
\* (fetchQuote, executeSwap, executePayment, reset) in any state and in any
\* order; the component has no effect of its own, and the wallet stays on
\* Sepolia, the chain of the shipped wagmi configuration, and in the
\* connection state it starts with.
\* useUniswapPayment.fetchQuote, up to its first await.
UniFetchQuoteCall ==
  /\ Len(fetches) < MaxFetches
  /\ uni' = UniFetchQuoteStart(uni, chainId, publicClient)
  /\ fetches' =
       IF UniFetchQuoteCallsQuoter(chainId, publicClient)
         THEN Append(fetches, [hook |-> "uni", chainId |-> chainId])
         ELSE fetches
  /\ UNCHANGED <<ledgerVars, page, form, log, split, walletVars, routeType, txChainId,
                 lifi, attempts, caps, showPayModal>>
  /\ ReconcileEffect

\* useLiFiPayment.fetchQuote, up to its first await.
LifiFetchQuoteCall ==
  /\ Len(fetches) < MaxFetches
  /\ lifi' = LifiFetchQuoteStart(lifi)
  /\ fetches' = Append(fetches, [hook |-> "lifi", chainId |-> chainId])
  /\ UNCHANGED <<ledgerVars, page, form, log, split, walletVars, routeType, txChainId,
                 uni, attempts, caps, showPayModal>>
  /\ ReconcileEffect

\* useUniswapPayment.executeSwap, up to its first await.
ExecuteSwapCall ==
  /\ uni' = ExecuteSwapStart(uni, connected)
  /\ IF ExecuteSwapGuard(uni, connected)
       THEN /\ Len(caps) < MaxAttempts
            /\ attempts' = Append(attempts,
                  NewAttempt(Len(caps) + 1, "uni", "send", uni.quote,
                             publicClient))
            /\ caps' = Append(caps, chainId)
       ELSE UNCHANGED <<attempts, caps>>
  /\ UNCHANGED <<ledgerVars, page, form, log, split, walletVars, routeType, txChainId,
                 lifi, fetches, showPayModal>>
  /\ ReconcileEffect

\* useLiFiPayment.executePayment, up to its first await.
ExecutePaymentCall ==
  /\ lifi' = ExecutePaymentStart(lifi, connected)
  /\ IF ExecutePaymentGuard(lifi, connected)
       THEN /\ Len(caps) < MaxAttempts
            /\ attempts' = Append(attempts,
                  NewAttempt(Len(caps) + 1, "lifi", "getChain", lifi.quote,
                             publicClient))
            /\ caps' = Append(caps, chainId)
       ELSE UNCHANGED <<attempts, caps>>
  /\ UNCHANGED <<ledgerVars, page, form, log, split, walletVars, routeType, txChainId,
                 uni, fetches, showPayModal>>
  /\ ReconcileEffect

\* useUniswapPayment.reset.
UniResetCall ==
  /\ uni' = HookReset(uni)
  /\ UNCHANGED <<ledgerVars, page, form, log, split, walletVars, routeType, txChainId,
                 lifi, fetches, attempts, caps, showPayModal>>
  /\ ReconcileEffect

\* useLiFiPayment.reset.
LifiResetCall ==
  /\ lifi' = HookReset(lifi)
  /\ UNCHANGED <<ledgerVars, page, form, log, split, walletVars, routeType, txChainId,
                 uni, fetches, attempts, caps, showPayModal>>
  /\ ReconcileEffect

InitHook ==
  /\ InitLedger
  /\ page = "hooks"
  /\ showPayModal = FALSE
  /\ split = NoSplit
  /\ posts = {}
  /\ chainId = SEPOLIA
  /\ connected \in BOOLEAN
  /\ account = UserAddress
  /\ publicClient \in BOOLEAN
  /\ routeType = "auto"
  /\ txChainId = 0
  /\ uni = HookInit
  /\ lifi = HookInit
  /\ fetches = <<>>
  /\ attempts = <<>>
  /\ caps = <<>>
  /\ callbacks = {}
  /\ form = FormInit
  /\ log = {}

NextHook ==
  \/ UniFetchQuoteCall
  \/ LifiFetchQuoteCall
  \/ ExecuteSwapCall
  \/ ExecutePaymentCall
  \/ UniResetCall
  \/ LifiResetCall
  \/ FetchQuoteResolve
  \/ FetchQuoteReject
  \/ SendTransactionResolve
  \/ SendTransactionReject
  \/ WaitReceiptResolve
  \/ WaitReceiptReject
  \/ GetTransactionFound
  \/ GetTransactionMissing
  \/ GetChainIdResolve
  \/ UpdateRouteHook
  \/ ExecuteRouteResolve
  \/ ExecutePaymentReject

SpecHook == InitHook /\ [][NextHook]_vars

\* ------------------------------------------------------------ ledger claims
\* Number of participants of a split that are marked paid.
PaidParticipants(intent) ==
  Cardinality({ i \in 1..Len(intent.participants) : intent.participants[i].paid })

\* C4: split/{id}/pay called twice with the same (splitId, participantAddress,
\* txHash) leaves the ledger as one call does and the second call answers
\* 200 "Already paid"; an address differing only in letter case names the
\* same participant and is not counted again; and in every reachable ledger
\* state paidCount <= totalParticipants.
C4_SplitPayIdempotent ==
  /\ \A id \in Ids, a \in Addrs \cup {Null}, h \in Hashes :
       LET once == SplitPayDb(intents, id, a, h)
       IN /\ SplitPayDb(once, id, a, h) = once
          /\ SplitPayResp(intents, id, a).code = 200
               => SplitPayResp(once, id, a) = Response(200, "Already paid")
          /\ \A b \in Addrs, g \in Hashes :
               (a # Null /\ toLowerCase(b) = toLowerCase(a))
                 => /\ SplitPayDb(once, id, b, g) = once
                    /\ SplitPayResp(once, id, b) = SplitPayResp(once, id, a)
  /\ \A id \in DOMAIN intents :
       intents[id].paidCount <= intents[id].totalParticipants

\* C4 witness: a split lists the same account in two spellings, the first
\* spelling has paid and been counted once, so a repeat call and a call with
\* the other spelling both meet the already-paid participant.
C4_Witness ==
  /\ "split_1" \in DOMAIN intents
  /\ Len(intents["split_1"].participants) = 2
  /\ intents["split_1"].participants[1].address = "0xaa"
  /\ intents["split_1"].participants[1].paid
  /\ intents["split_1"].participants[2].address = "0xbb"
  /\ intents["split_1"].paidCount = 1
  /\ SplitPayResp(intents, "split_1", "0xAA") = Response(200, "Already paid")

\* Status of a split as a function of its paid participants.
DerivedStatus(intent) ==
  LET k == PaidParticipants(intent)
  IN IF k = 0 THEN "unpaid"
     ELSE IF k = Len(intent.participants) THEN "paid"
     ELSE "partial"

\* C5: in every reachable ledger state each split with N participants of
\* which k are marked paid has status partial when 0 < k < N, paid when
\* k = N, unpaid when k = 0.
C5_SplitStatusDerived ==
  \A id \in DOMAIN intents :
    intents[id].type = "split" => intents[id].status = DerivedStatus(intents[id])

\* C6: once an intent is paid, a further fusion/callback for its id, with the
\* same or another txHash, answers 200 and leaves the ledger, so the intent's
\* status and stored txHash, unchanged.
C6_FusionCallbackIdempotent ==
  \A id \in DOMAIN intents, h \in Hashes \cup {Null} :
    intents[id].status = "paid"
      => /\ FusionCallbackResp(intents, id).code = 200
         /\ FusionCallbackDb(intents, id, h) = intents

\* C6 witness: the payment intent has been marked paid by a callback that
\* carried the hash 0xh1.
C6_Witness ==
  /\ "intent_1" \in DOMAIN intents
  /\ intents["intent_1"].status = "paid"
  /\ intents["intent_1"].txHash = "0xh1"

\* -------------------------------------------------------------- page claims
\* A hook's status becomes success in this step.
BecomesSuccess(h, hNext) == h.status # "success" /\ hNext.status = "success"

FetchStarts == Len(fetches') > Len(fetches)

C11_LookupFoundIsSuccess ==
  [][GetTransactionFound => uni'.status = "success"]_vars

\* C11 witness: the swap hook is in success and the confirming signal was
\* the lookup, which is only made after the receipt wait failed.
C11_Witness ==
  /\ uni.status = "success"
  /\ uni.via = "lookup"
  /\ uni.txHash # 0

\* A signature rejection: err.code === 4001 or a message containing 'rejected'.
isRejection(err) == err.code = 4001 \/ includesRejected(err.message)

\* The state a failed execution must leave in hook h for some thrown error.
FailedAs(h, hNext) ==
  \E err \in WalletErrors :
    /\ hNext.status = "error"
    /\ isRejection(err) => hNext.error = "Transaction rejected by user"
    /\ ~isRejection(err) /\ err.message # Null => hNext.error = err.message
    /\ hNext.quote = h.quote /\ hNext.txHash = h.txHash

C13_ExecuteWithoutQuote ==
  [][ /\ ExecuteSwapCall /\ uni.quote = NoQuote =>
           /\ uni'.status = "error"
           /\ uni'.error # Null
           /\ UNCHANGED <<attempts, caps, fetches, walletVars>>
      /\ ExecutePaymentCall /\ lifi.quote = NoQuote =>
           /\ lifi'.status = "error"
           /\ lifi'.error # Null
           /\ UNCHANGED <<attempts, caps, fetches, walletVars>> ]_vars

\* C13 witness: with a connected wallet, the swap hook is in error with the
\* guard's message and holds no quote, and no execution was ever started.
C13_Witness ==
  /\ connected
  /\ uni.status = "error"
  /\ uni.error = "No quote available or wallet not connected"
  /\ uni.quote = NoQuote
  /\ lifi.status = "error"
  /\ lifi.error = "No route available or wallet not connected"
  /\ lifi.quote = NoQuote
  /\ caps = <<>>

RouteTypes == {"auto", "lifi", "uniswap"}

\* A step of the quote or pay handler that went to the Uniswap hook, and one
\* that went to the LI.FI hook.
TakesSameChain ==
  /\ lifi' = lifi
  /\ uni' \in {UniFetchQuoteStart(uni, chainId, publicClient),
               ExecuteSwapStart(uni, connected)}

TakesCrossChain ==
  /\ uni' = uni
  /\ lifi' \in {LifiFetchQuoteStart(lifi), ExecutePaymentStart(lifi, connected)}

\* C15: on the test network (Sepolia) the route selector returns the
\* same-chain strategy for every override value, and the quote and pay
\* handlers act on the Uniswap hook.
C15_TestnetSameChain ==
  [][ chainId = 11155111 =>
        /\ \A rt \in RouteTypes : useUniswap(chainId, rt)
        /\ Cur = uni
        /\ HandleGetQuote \/ HandlePay => TakesSameChain ]_vars

\* C15 witness: on Sepolia with the override on 'lifi', a quote request has
\* gone to the Uniswap hook and the LI.FI hook was never used.
C15_Witness ==
  /\ chainId = SEPOLIA
  /\ routeType = "lifi"
  /\ uni.status \in {"fetching-quote", "error"}
  /\ lifi = HookInit
  /\ caps = <<>>

\* C16: off the test network the strategy follows the override: 'lifi' gives
\* cross-chain, 'uniswap' gives same-chain, and 'auto' gives same-chain
\* exactly when the current chain is the settlement chain (Polygon, 137);
\* the quote and pay handlers act on the hook of that strategy.
C16_PriorityPolicy ==
  [][ chainId # 11155111 =>
        LET sameChain ==
              \/ routeType = "uniswap"
              \/ routeType = "auto" /\ chainId = 137
        IN /\ useUniswap(chainId, routeType) <=> sameChain
           /\ routeType = "lifi" => ~useUniswap(chainId, routeType)
           /\ HandleGetQuote \/ HandlePay =>
                IF sameChain THEN TakesSameChain ELSE TakesCrossChain ]_vars

\* C16 witness: on Ethereum mainnet with the override on 'auto', a quote
\* request has gone to the LI.FI hook and the Uniswap hook was never used.
C16_Witness ==
  /\ chainId = MAINNET
  /\ routeType = "auto"
  /\ lifi.status = "fetching-quote"
  /\ uni = HookInit
  /\ caps = <<>>

\* C17: for a split in the ledger and two calls of split/{id}/pay that name
\* two different unpaid participants, the two orders of the calls give the
\* same ledger, in which both participants are paid, each with the hash of
\* its own call, paidCount has grown by exactly 2 and the status is the one
\* derived from that count.
C17_SplitPaysCommute ==
  \A id \in DOMAIN intents, a, b \in Addrs, ha, hb \in Hashes :
    LET ps == intents[id].participants
        i == FindParticipant(ps, a)
        j == FindParticipant(ps, b)
        ab == SplitPayDb(SplitPayDb(intents, id, a, ha), id, b, hb)
        ba == SplitPayDb(SplitPayDb(intents, id, b, hb), id, a, ha)
    IN (/\ intents[id].type = "split"
        /\ i # 0 /\ j # 0 /\ i # j
        /\ ~ps[i].paid /\ ~ps[j].paid) =>
         /\ ab = ba
         /\ ab[id].participants[i] = [ps[i] EXCEPT !.paid = TRUE, !.txHash = ha]
         /\ ab[id].participants[j] = [ps[j] EXCEPT !.paid = TRUE, !.txHash = hb]
         /\ ab[id].paidCount = intents[id].paidCount + 2
         /\ ab[id].status =
              IF ab[id].paidCount = ab[id].totalParticipants THEN "paid"
              ELSE "partial"
         /\ \A x \in DOMAIN intents \ {id} : ab[x] = intents[x]

\* C17 witness: a split of three entries in which two different participants
\* have been marked paid with different hashes, and the status is partial.
C17_Witness ==
  \E id \in DOMAIN intents :
    /\ intents[id].type = "split"
    /\ intents[id].totalParticipants = 3
    /\ intents[id].paidCount = 2
    /\ intents[id].status = "partial"
    /\ \E i, j \in 1..3 :
         /\ intents[id].participants[i].paid
         /\ intents[id].participants[j].paid
         /\ intents[id].participants[i].txHash = "0xh1"
         /\ intents[id].participants[j].txHash = "0xh2"

\* C18: an intent that create-intent has just stored has status unpaid and
\* no txHash, a payment intent that is still unpaid has no txHash, and the
\* first fusion/callback for it that carries a hash h leaves it with status
\* paid and txHash h.
C18_IntentUnpaidThenPaid ==
  [][ /\ \A id \in DOMAIN intents' \ DOMAIN intents :
           intents'[id].type = "payment" =>
             intents'[id].status = "unpaid" /\ intents'[id].txHash = Null
      /\ \A id \in DOMAIN intents :
           (intents[id].type = "payment" /\ intents[id].status = "unpaid") =>
             /\ intents[id].txHash = Null
             /\ \A h \in Hashes :
                  intents' = FusionCallbackDb(intents, id, h) =>
                    intents'[id].status = "paid" /\ intents'[id].txHash = h ]_vars

\* C18 witness: a payment intent is paid and stores the hash of a callback.
C18_Witness ==
  \E id \in DOMAIN intents :
    /\ intents[id].type = "payment"
    /\ intents[id].status = "paid"
    /\ intents[id].txHash = "0xh2"

\* Sum of the shares of a list of participant rows.
RECURSIVE ShareSum(_)
ShareSum(ps) == IF ps = <<>> THEN 0 ELSE Head(ps).share + ShareSum(Tail(ps))

\* C19: whatever rows were added, removed and edited, SplitPage sends
\* create-split only with shares that sum to 100: while the sum is not 100
\* the submit button is disabled and handleCreateSplit's validation yields an
\* error instead of a request, and every request in flight and every step
\* that sends one carries shares summing to 100.
C19_NoCreateSplitUnless100 ==
  [][ /\ ShareSum(form.participants) # 100 =>
           /\ ~CanCreateSplit
           /\ CreateSplitValidation(form, recipientAddress) # Null
           /\ form'.request = form.request \/ form'.request = NoRequest
      /\ form'.request # NoRequest =>
           ShareSum(form'.request.participants) = 100 ]_vars

\* C19 witness: after adding a row and editing the shares to 60 and 30, with
\* a valid amount, a connected wallet and addresses in every row, the form
\* holds shares summing to 90, the button is disabled and nothing was sent.
C19_Witness ==
  /\ page = "create-split"
  /\ connected
  /\ Len(form.participants) = 2
  /\ form.participants[1].share = 60 /\ form.participants[2].share = 30
  /\ form.totalAmount = "25"
  /\ allParticipantsValid(form.participants)
  /\ ~CanCreateSplit
  /\ CreateSplitValidation(form, recipientAddress) = "Shares must total 100%"
  /\ form.request = NoRequest /\ issued = {}

AwaitingSignature == {"awaiting-approval", "awaiting-sig"}

C24_RequestOnlyForValidatedValue ==
  [][ (form.request = NoRequest /\ form'.request # NoRequest) =>
        \/ isAddress(form'.request.recipient)
        \/ isENS(form'.request.recipient) /\ ensValid(form'.request.recipient) ]_vars

\* The reasons that announce the same-chain strategy.
SameChainReasons ==
  {"Testnet (LI.FI not supported)", "Same-chain swap (faster & cheaper)",
   "You selected Uniswap"}

C26_AllAddressesPaidIsPaid ==
  \A id \in DOMAIN intents :
    intents[id].type = "split" =>
      LET ps == intents[id].participants
      IN (\A k \in 1..Len(ps) : ps[FindParticipant(ps, ps[k].address)].paid) =>
           /\ intents[id].status = "paid"
           /\ intents[id].paidCount = intents[id].totalParticipants

====
